---- MODULE Spec2Model ----
(***************************************************************************)
(* Model of the otaku-wireframe client: the axios API client of            *)
(* src/services/api.ts (request interceptor, response interceptor with     *)
(* the 401 refresh-and-replay branch) and the AuthProvider session         *)
(* context (checkAuth, login, register, logout, derived role flags).       *)
(*                                                                         *)
(* One page instance is modelled (one mount of AuthProvider).  The         *)
(* browser runs one task at a time: the arrival of a response, together    *)
(* with the promise continuations it triggers (interceptor, then the       *)
(* awaiting caller), is one atomic step; steps of different requests       *)
(* interleave freely.  The backend is the environment: every response      *)
(* (status, message, tokens, user) is a nondeterministic choice.           *)
(*                                                                         *)
(* The calls in flight form a bag of request configs: a config carries     *)
(* its own _retry flag and nothing distinguishes two configs but their     *)
(* fields.  What a step puts on the wire (endpoint and Authorization       *)
(* header) is recorded in the step's event; the interceptors never read    *)
(* a header back from a config (line 58 overwrites it before the replay),  *)
(* so a config in flight does not keep it.                                 *)
(*                                                                         *)
(* PrivateRoute is a function of the session context, evaluated in every   *)
(* state of Spec.  The page components (Home and ArticleDetail likes,      *)
(* TopicDetail replies, the CreateArticle and CreateTopic forms) have      *)
(* specifications of their own (LikeSpec, ReplySpec, FormSpec) over the    *)
(* page variables, which Spec leaves untouched.                            *)
(***************************************************************************)
EXTENDS Integers, Sequences, FiniteSets, Bags, TLC

\* ---------------------------------------------------------------- bounds
MaxInFlight == 2            \* api calls in flight at the same time

\* ------------------------------------------------------- value domains
None == "none"                                  \* null / undefined / absent
AccessTokens == {"a1", "a2"}                    \* opaque access tokens
RefreshTokens == {"r1"}                         \* opaque refresh tokens
Roles == {"user", "moderator", "admin"}         \* User.role
Kinds == {"me", "login", "register", "resource"}
\* response statuses; 0 stands for a transport failure (error.response
\* is undefined)
ErrorStatuses == {0, 401, 403, 404, 500}
\* error.response.data.message as the backend may send it
Messages == {None, "", "Invalid credentials"}

NoHeader == <<>>
Bearer(t) == <<"Bearer", t>>

NoData == [access_token |-> None, refresh_token |-> None, user |-> None]
NoErr == [status |-> 200, message |-> None, from |-> None]

VARIABLES
    localStorage,   \* [access_token, refresh_token] -> token or None
    user,           \* AuthProvider state: None or the user's role
    loading,        \* AuthProvider state
    checkpc,        \* position of checkAuth: "mount", "await", "settled"
    reqs,           \* bag of the configs of the `api` calls in flight
    last,           \* the step just taken: the call it served before and
                    \* after, what the backend delivered, what was sent
    page,           \* the page component under study, None when none is
    state,          \* its useState fields
    calls,          \* bag of its api calls in flight, each with the values
                    \* the awaiting handler closed over
    shown           \* the page handler step just taken

sessionVars == <<localStorage, user, loading, checkpc, reqs, last>>
pageVars == <<page, state, calls, shown>>
vars == <<localStorage, user, loading, checkpc, reqs, last,
          page, state, calls, shown>>

\* ------------------------------------------------------- localStorage
getItem(ls, k) == ls[k]
setItem(ls, k, v) == [ls EXCEPT ![k] = v]
removeItem(ls, k) == [ls EXCEPT ![k] = None]

\* ------------------------------------------------ request interceptor
RequestInterceptorKeepsHeader(ls, hdr) == hdr

RequestInterceptorSendsRefreshToken(ls, hdr) ==
    LET token == getItem(ls, "refresh_token")
    IN  IF token # None THEN Bearer(token) ELSE hdr

\* api.interceptors.request: the Authorization header of an outgoing
\* config, given the header the config already carries
RequestInterceptor(ls, hdr) ==
    LET token == getItem(ls, "access_token")
    IN  IF token # None THEN Bearer(token) ELSE hdr

\* a message on the wire: who sent it, to which endpoint, with which
\* Authorization header
Wire(client, endpoint, hdr) ==
    [client |-> client, endpoint |-> endpoint, hdr |-> hdr]

\* the config of a call as api.get/post/put/delete first dispatches it
NewRequest(kind) ==
    [kind |-> kind, pc |-> "sent", retry |-> FALSE, sends |-> 1,
     refreshes |-> 0, signouts |-> 0]

\* no call
NoReq ==
    [kind |-> None, pc |-> "idle", retry |-> FALSE, sends |-> 0,
     refreshes |-> 0, signouts |-> 0]

InFlight == BagToSet(reqs)
Put(bag, req) == bag (+) SetToBag({req})
Take(bag, req) == bag (-) SetToBag({req})

Event(op, before, req, result, data, err, toasts, thrown, wire) ==
    [op |-> op, before |-> before, req |-> req, result |-> result,
     data |-> data, err |-> err, toasts |-> toasts, thrown |-> thrown,
     wire |-> wire]

\* ------------------------------------------------------- derived flags
isAuthenticated == user # None
isModeratorOnly == user = "moderator"

isModerator == user = "moderator" \/ user = "admin"
isAdmin == user = "admin"

\* ------------------------------------------------- AuthProvider bodies
\* Each takes the token store as the interceptor left it, whether the
\* awaited call resolved, its data or its error, and yields the new
\* session state, the toasts shown and whether the error is re-thrown.
Session(ls, u, ld, cp, toasts, thrown) ==
    [ls |-> ls, user |-> u, loading |-> ld, checkpc |-> cp,
     toasts |-> toasts, thrown |-> thrown]

MessageOrRaw(err, fallback) == err.message

\* error.response?.data?.message || fallback
MessageOr(err, fallback) ==
    IF err.message = None \/ err.message = "" THEN fallback ELSE err.message

checkAuth(ls, ok, data, err) ==
    IF ok
    THEN Session(ls, data.user, FALSE, "settled", <<>>, FALSE)
    ELSE Session(removeItem(removeItem(ls, "access_token"), "refresh_token"),
                 user, FALSE, "settled", <<>>, FALSE)

loginDropsRefreshToken(ls, ok, data, err) ==
    IF ok
    THEN Session(setItem(ls, "access_token", data.access_token),
                 data.user, loading, checkpc,
                 << <<"Welcome back!", None>> >>, FALSE)
    ELSE Session(ls, user, loading, checkpc,
                 << <<"Login Failed", MessageOr(err, "Login failed")>> >>,
                 TRUE)

login(ls, ok, data, err) ==
    IF ok
    THEN Session(setItem(setItem(ls, "access_token", data.access_token),
                         "refresh_token", data.refresh_token),
                 data.user, loading, checkpc,
                 << <<"Welcome back!", None>> >>, FALSE)
    ELSE Session(ls, user, loading, checkpc,
                 << <<"Login Failed", MessageOr(err, "Login failed")>> >>,
                 TRUE)

register(ls, ok, data, err) ==
    IF ok
    THEN Session(setItem(setItem(ls, "access_token", data.access_token),
                         "refresh_token", data.refresh_token),
                 data.user, loading, checkpc,
                 << <<"Welcome to Otaku Forum!", None>> >>, FALSE)
    ELSE Session(ls, user, loading, checkpc,
                 << <<"Registration Failed",
                      MessageOr(err, "Registration failed")>> >>,
                 TRUE)

\* a resource client: unwraps the envelope, propagates the error
resource(ls, ok, data, err) ==
    Session(ls, user, loading, checkpc, <<>>, ~ok)

\* the caller awaiting a call of the given kind
Caller(kind, ls, ok, data, err) ==
    CASE kind = "me" -> checkAuth(ls, ok, data, err)
      [] kind = "login" -> login(ls, ok, data, err)
      [] kind = "register" -> register(ls, ok, data, err)
      [] OTHER -> resource(ls, ok, data, err)

\* the response body the backend may send for a successful call
DataFor(kind) ==
    CASE kind = "me" ->
            {[NoData EXCEPT !.user = u] : u \in Roles}
      [] kind \in {"login", "register"} ->
            [access_token : AccessTokens, refresh_token : RefreshTokens,
             user : Roles]
      [] OTHER -> {NoData}

\* the server message of an error response (none without a response)
MessagesFor(kind, status) ==
    IF status = 0 \/ kind \notin {"login", "register"}
    THEN {None} ELSE Messages

\* no page under study: nothing mounted, no handler step taken
NoState == [mounted |-> FALSE]
NoCall == [api |-> None]
PageEvent(op, call, result, data, toasts, sent, navigate) ==
    [op |-> op, call |-> call, result |-> result, data |-> data,
     toasts |-> toasts, sent |-> sent, navigate |-> navigate]
NoShown == PageEvent("init", NoCall, None, None, <<>>, <<>>, None)

Init ==
    /\ localStorage \in
         {[access_token |-> None, refresh_token |-> None]} \cup
         [access_token : AccessTokens, refresh_token : RefreshTokens]
    /\ user = None
    /\ loading = TRUE
    /\ checkpc = "mount"
    /\ reqs = EmptyBag
    /\ last = Event("init", NoReq, NoReq, None, NoData, NoErr, <<>>, FALSE,
                    <<>>)
    /\ page = None
    /\ state = NoState
    /\ calls = EmptyBag
    /\ shown = NoShown

\* ------------------------------------------------ response interceptor
ShouldRefreshOn403(req, status) == status = 403 /\ ~req.retry

ShouldRefreshSharedFlag(req, status) ==
    status = 401 /\ \A q \in InFlight : ~q.retry

\* line 45: the guard of the refresh branch
ShouldRefresh(req, status) == status = 401 /\ ~req.retry

ClearTokensAccessOnly(ls) == removeItem(ls, "access_token")

\* lines 62-63: the catch of a failed refresh
ClearTokens(ls) == removeItem(removeItem(ls, "access_token"), "refresh_token")

ErrorToastsServerOnly(status) ==
    IF status >= 500 THEN << <<"Server Error", None>> >> ELSE <<>>

ErrorToastsFrom400(status) ==
    IF status = 403 THEN << <<"Access Denied", None>> >>
    ELSE IF status >= 400 THEN << <<"Server Error", None>> >>
    ELSE <<>>

ErrorToastsUnauthorized(status) ==
    IF status = 403 THEN << <<"Access Denied", None>> >>
    ELSE IF status >= 500 THEN << <<"Server Error", None>> >>
    ELSE IF status = 401 THEN << <<"Unauthorized", None>> >>
    ELSE <<>>

\* lines 69-82: the notification an error status raises
ErrorToasts(status) ==
    IF status = 403 THEN << <<"Access Denied", None>> >>
    ELSE IF status >= 500 THEN << <<"Server Error", None>> >>
    ELSE <<>>

StoreAccessTokenDropped(ls, access_token) == ls

\* line 56: the refreshed access token is persisted
StoreAccessToken(ls, access_token) == setItem(ls, "access_token", access_token)

\* lines 58-59: the config is replayed; api(originalRequest) runs the
\* request interceptor again on the header line 58 has set
Replay(req) == [req EXCEPT !.pc = "sent", !.sends = @ + 1]
ReplayHeader(ls, access_token) ==
    RequestInterceptor(ls, Bearer(access_token))

\* the promise of the call settles and its awaiting caller runs
Settle(op, before, req, ls, ok, data, err, toasts) ==
    LET s == Caller(req.kind, ls, ok, data, err)
    IN  /\ localStorage' = s.ls
        /\ user' = s.user
        /\ loading' = s.loading
        /\ checkpc' = s.checkpc
        /\ reqs' = Take(reqs, before)
        /\ last' = Event(op, before, [req EXCEPT !.pc = "done"],
                         IF ok THEN "ok" ELSE err.from, data, err,
                         toasts \o s.toasts, s.thrown, <<>>)

\* line 41: a 2xx response passes through to the caller
Fulfilled(req) ==
    /\ req.pc = "sent"
    /\ \E data \in DataFor(req.kind) :
          Settle("response", req, req, localStorage, TRUE, data, NoErr, <<>>)

\* lines 42-85: an error (a non-2xx response or none at all)
Rejected(req) ==
    /\ req.pc = "sent"
    /\ \E status \in ErrorStatuses :
       \E message \in MessagesFor(req.kind, status) :
         LET err == [status |-> status, message |-> message, from |-> "error"]
             retried == [req EXCEPT !.retry = TRUE]
             refreshToken == getItem(localStorage, "refresh_token")
         IN  IF ShouldRefresh(req, status)
             THEN IF refreshToken # None
                  THEN \* lines 51-53: the refresh call leaves, raw axios
                       LET waiting == [retried EXCEPT !.pc = "refreshing",
                                                      !.refreshes = @ + 1]
                       IN  /\ reqs' = Put(Take(reqs, req), waiting)
                           /\ last' = Event("response", req, waiting,
                                  "pending", NoData, err, <<>>, FALSE,
                                  << Wire("axios", "refresh",
                                          Bearer(refreshToken)) >>)
                           /\ UNCHANGED <<localStorage, user, loading,
                                          checkpc>>
                  ELSE Settle("response", req, retried, localStorage, FALSE,
                              NoData, err, ErrorToasts(status))
             ELSE Settle("response", req, req, localStorage, FALSE,
                         NoData, err, ErrorToasts(status))

\* lines 55-59: the refresh call succeeded
RefreshFulfilled(req) ==
    /\ req.pc = "refreshing"
    /\ \E access_token \in AccessTokens :
         LET ls == StoreAccessToken(localStorage, access_token)
         IN  /\ localStorage' = ls
             /\ reqs' = Put(Take(reqs, req), Replay(req))
             /\ last' = Event("refreshResponse", req, Replay(req), "pending",
                              [NoData EXCEPT !.access_token = access_token],
                              NoErr, <<>>, FALSE,
                              << Wire("api", req.kind,
                                      ReplayHeader(ls, access_token)) >>)
             /\ UNCHANGED <<user, loading, checkpc>>

\* lines 61-66: the refresh call failed
RefreshRejected(req) ==
    /\ req.pc = "refreshing"
    /\ \E status \in ErrorStatuses :
       \E message \in MessagesFor(req.kind, status) :
         Settle("refreshResponse", req, [req EXCEPT !.signouts = @ + 1],
                ClearTokens(localStorage), FALSE, NoData,
                [status |-> status, message |-> message,
                 from |-> "refreshError"], <<>>)

\* ------------------------------------------------------ calls and events
\* a call through `api`: the request interceptor, then the send
Call(kind) ==
    /\ BagCardinality(reqs) < MaxInFlight
    /\ reqs' = Put(reqs, NewRequest(kind))
    /\ last' = Event("call", NoReq, NewRequest(kind), "pending", NoData,
                     NoErr, <<>>, FALSE,
                     << Wire("api", kind,
                             RequestInterceptor(localStorage, NoHeader)) >>)

\* useEffect(() => { checkAuth() }, []) up to its await
CheckAuthStart ==
    /\ checkpc = "mount"
    /\ IF getItem(localStorage, "access_token") # None
       THEN /\ Call("me")
            /\ checkpc' = "await"
            /\ UNCHANGED <<localStorage, user, loading>>
       ELSE /\ loading' = FALSE
            /\ checkpc' = "settled"
            /\ last' = Event("checkAuth", NoReq, NoReq, None, NoData, NoErr,
                             <<>>, FALSE, <<>>)
            /\ UNCHANGED <<localStorage, user, reqs>>

LoginCall ==
    /\ checkpc # "mount"
    /\ Call("login")
    /\ UNCHANGED <<localStorage, user, loading, checkpc>>

RegisterCall ==
    /\ checkpc # "mount"
    /\ Call("register")
    /\ UNCHANGED <<localStorage, user, loading, checkpc>>

ResourceCall ==
    /\ checkpc # "mount"
    /\ Call("resource")
    /\ UNCHANGED <<localStorage, user, loading, checkpc>>

logoutKeepsRefreshToken ==
    /\ isAuthenticated
    /\ localStorage' = removeItem(localStorage, "access_token")
    /\ user' = None
    /\ last' = Event("logout", NoReq, NoReq, None, NoData, NoErr,
                     << <<"Logged out", None>> >>, FALSE, <<>>)
    /\ UNCHANGED <<loading, checkpc, reqs>>

\* AuthProvider.logout, reached from Layout.handleLogout
logout ==
    /\ isAuthenticated
    /\ localStorage' = removeItem(removeItem(localStorage, "access_token"),
                                  "refresh_token")
    /\ user' = None
    /\ last' = Event("logout", NoReq, NoReq, None, NoData, NoErr,
                     << <<"Logged out", None>> >>, FALSE, <<>>)
    /\ UNCHANGED <<loading, checkpc, reqs>>

Next ==
    \/ CheckAuthStart /\ UNCHANGED pageVars
    \/ LoginCall /\ UNCHANGED pageVars
    \/ RegisterCall /\ UNCHANGED pageVars
    \/ ResourceCall /\ UNCHANGED pageVars
    \/ logout /\ UNCHANGED pageVars
    \/ \E req \in InFlight : Fulfilled(req) /\ UNCHANGED pageVars
    \/ \E req \in InFlight : Rejected(req) /\ UNCHANGED pageVars
    \/ \E req \in InFlight : RefreshFulfilled(req) /\ UNCHANGED pageVars
    \/ \E req \in InFlight : RefreshRejected(req) /\ UNCHANGED pageVars

Spec == Init /\ [][Next]_vars

\* --------------------------------------------------------- route guard
\* what a route element renders: the loading placeholder, a <Navigate>
\* (with its target and the location kept in its state) or the children
Placeholder == [render |-> "Loading...", to |-> None, from |-> None]
Navigate(to, from) == [render |-> "Navigate", to |-> to, from |-> from]
Children == [render |-> "children", to |-> None, from |-> None]

\* the paths App wraps in <PrivateRoute>
ProtectedPaths ==
    {"/create-article", "/articles/:id/edit", "/forum/create-topic",
     "/forum/topics/:id/edit", "/profile/edit"}

PrivateRouteDropsFrom(requireModerator, requireAdmin, location) ==
    IF loading THEN Placeholder
    ELSE IF ~isAuthenticated THEN Navigate("/login", None)
    ELSE IF requireAdmin /\ ~isAdmin THEN Navigate("/", None)
    ELSE IF requireModerator /\ ~isModerator THEN Navigate("/", None)
    ELSE Children

PrivateRouteIgnoresModerator(requireModerator, requireAdmin, location) ==
    IF loading THEN Placeholder
    ELSE IF ~isAuthenticated THEN Navigate("/login", location)
    ELSE IF requireAdmin /\ ~isAdmin THEN Navigate("/", None)
    ELSE Children

PrivateRouteIgnoresLoading(requireModerator, requireAdmin, location) ==
    IF ~isAuthenticated THEN Navigate("/login", location)
    ELSE IF requireAdmin /\ ~isAdmin THEN Navigate("/", None)
    ELSE IF requireModerator /\ ~isModerator THEN Navigate("/", None)
    ELSE Children

\* PrivateRoute, rendered at the given location with the session context
\* of the current state
PrivateRoute(requireModerator, requireAdmin, location) ==
    IF loading THEN Placeholder
    ELSE IF ~isAuthenticated THEN Navigate("/login", location)
    ELSE IF requireAdmin /\ ~isAdmin THEN Navigate("/", None)
    ELSE IF requireModerator /\ ~isModerator THEN Navigate("/", None)
    ELSE Children

\* the element App renders at a protected path
ProtectedRoute(path) == PrivateRoute(FALSE, FALSE, path)

\* ---------------------------------------------------------------- pages
\* The page components are studied one at a time, each in a specification
\* of its own, on top of a session that has finished its check.  A call a
\* page makes through a resource client of api.ts is seen from the page
\* as its promise: it resolves with the backend's answer or it rejects.
SessionSettled(users) ==
    /\ user \in users
    /\ localStorage \in
         IF user = None
         THEN {[access_token |-> None, refresh_token |-> None]}
         ELSE {[access_token |-> "a1", refresh_token |-> "r1"]}
    /\ loading = FALSE
    /\ checkpc = "settled"
    /\ reqs = EmptyBag
    /\ last = Event("init", NoReq, NoReq, None, NoData, NoErr, <<>>, FALSE,
                    <<>>)

PageCalls == BagToSet(calls)

\* ------------------------------------------- Home and ArticleDetail: likes
ArticleIds == {1, 2}
LikeCounts == 0 .. 1
\* the fields of Article a like touches
Articles == [likes : LikeCounts, user_liked : BOOLEAN]
\* useState<Article | null>(null) before the article is fetched
NoArticle == [null |-> TRUE]
\* the answer of POST /articles/{id}/like
LikeResponses == [liked : BOOLEAN, likes_count : LikeCounts]

LoginRequiredToLike ==
    <<"Login Required", "Please log in to like articles.">>
FailedToLike == <<"Error", "Failed to like article. Please try again.">>

\* articlesApi.likeArticle(id), with what the awaiting handler closed over
LikeCall(id, closure) ==
    [api |-> "likeArticle", id |-> id, closure |-> closure]

MergeLikeLocally(article, response) ==
    [article EXCEPT !.user_liked = ~article.user_liked,
                    !.likes = IF article.user_liked THEN @ - 1 ELSE @ + 1]

\* { ...article, user_liked: response.liked, likes: response.likes_count }
MergeLike(article, response) ==
    [article EXCEPT !.user_liked = response.liked,
                    !.likes = response.likes_count]

LikeInit ==
    /\ SessionSettled({None, "user"})
    /\ \/ /\ page = "Home"
          /\ state \in [mounted : {TRUE}, articles : [ArticleIds -> Articles]]
       \/ /\ page = "ArticleDetail"
          /\ \/ state \in [mounted : {TRUE}, id : ArticleIds,
                           article : Articles]
             \/ state \in [mounted : {TRUE}, id : ArticleIds,
                           article : {NoArticle}]
    /\ calls = EmptyBag
    /\ shown = NoShown

\* Home.handleLikeArticle up to its await
HomeHandleLikeArticle(articleId) ==
    /\ page = "Home"
    /\ IF ~isAuthenticated
       THEN /\ shown' = PageEvent("handleLikeArticle", NoCall, None, None,
                                  <<LoginRequiredToLike>>, <<>>, None)
            /\ UNCHANGED calls
       ELSE LET call == LikeCall(articleId, state.articles)
            IN  /\ BagCardinality(calls) < MaxInFlight
                /\ calls' = Put(calls, call)
                /\ shown' = PageEvent("handleLikeArticle", call, "pending",
                                      None, <<>>, <<call>>, None)
    /\ UNCHANGED <<page, state>>
    /\ UNCHANGED sessionVars

\* Home.handleLikeArticle from its await on
HomeLikeSettled(call) ==
    /\ page = "Home"
    /\ call.api = "likeArticle"
    /\ calls' = Take(calls, call)
    /\ \/ \E response \in LikeResponses :
            /\ state' = [state EXCEPT !.articles =
                   [id \in ArticleIds |->
                       IF id = call.id
                       THEN MergeLike(call.closure[id], response)
                       ELSE call.closure[id]]]
            /\ shown' = PageEvent("likeArticle", call, "ok", response,
                                  <<>>, <<>>, None)
       \/ /\ shown' = PageEvent("likeArticle", call, "error", None,
                                <<FailedToLike>>, <<>>, None)
          /\ UNCHANGED state
    /\ UNCHANGED page
    /\ UNCHANGED sessionVars

\* ArticleDetail.handleLikeArticle up to its await
DetailHandleLikeArticle ==
    /\ page = "ArticleDetail"
    /\ IF state.article = NoArticle \/ ~isAuthenticated
       THEN /\ shown' = PageEvent("handleLikeArticle", NoCall, None, None,
                                  <<LoginRequiredToLike>>, <<>>, None)
            /\ UNCHANGED calls
       ELSE LET call == LikeCall(state.id, state.article)
            IN  /\ BagCardinality(calls) < MaxInFlight
                /\ calls' = Put(calls, call)
                /\ shown' = PageEvent("handleLikeArticle", call, "pending",
                                      None, <<>>, <<call>>, None)
    /\ UNCHANGED <<page, state>>
    /\ UNCHANGED sessionVars

\* ArticleDetail.handleLikeArticle from its await on
DetailLikeSettled(call) ==
    /\ page = "ArticleDetail"
    /\ call.api = "likeArticle"
    /\ calls' = Take(calls, call)
    /\ \/ \E response \in LikeResponses :
            /\ state' = [state EXCEPT !.article =
                                          MergeLike(call.closure, response)]
            /\ shown' = PageEvent("likeArticle", call, "ok", response,
                                  <<>>, <<>>, None)
       \/ /\ shown' = PageEvent("likeArticle", call, "error", None,
                                <<FailedToLike>>, <<>>, None)
          /\ UNCHANGED state
    /\ UNCHANGED page
    /\ UNCHANGED sessionVars

LikeNext ==
    \/ \E articleId \in ArticleIds : HomeHandleLikeArticle(articleId)
    \/ \E call \in PageCalls : HomeLikeSettled(call)
    \/ DetailHandleLikeArticle
    \/ \E call \in PageCalls : DetailLikeSettled(call)
    \/ logout /\ UNCHANGED pageVars

LikeSpec == LikeInit /\ [][LikeNext]_vars

\* --------------------------------------------------------------- strings
MaxLen == 2                 \* characters in a text field
Chars == {" ", "a"}
Strings == UNION {[1 .. n -> Chars] : n \in 0 .. MaxLen}

RECURSIVE trimStart(_)
trimStart(s) ==
    IF s # <<>> /\ Head(s) = " " THEN trimStart(Tail(s)) ELSE s

RECURSIVE trimEnd(_)
trimEnd(s) ==
    IF s # <<>> /\ s[Len(s)] = " "
    THEN trimEnd(SubSeq(s, 1, Len(s) - 1)) ELSE s

\* String.prototype.trim
trim(s) == trimEnd(trimStart(s))

\* ------------------------------------------------- TopicDetail: replies
MaxReplies == 2             \* replies the page comes to list

LoginRequiredToReply == <<"Login Required", "Please log in to reply.">>
TopicLocked ==
    <<"Topic Locked", "This topic is locked and no longer accepts replies.">>
ReplyPosted == <<"Success", "Reply posted successfully.">>
FailedToReply == <<"Error", "Failed to post reply. Please try again.">>

\* forumApi.createReply(topic.id, content), with what the awaiting
\* handler closed over
ReplyCall(content, closure) ==
    [api |-> "createReply", content |-> content, closure |-> closure]

\* line 229: the reply form is rendered
ReplyFormRendered == isAuthenticated /\ ~state.topic.is_locked
\* line 240: its submit button is enabled
ReplyButtonEnabled == ~state.submitting /\ trim(state.replyContent) # <<>>

ReplyInit ==
    /\ SessionSettled({None} \cup Roles)
    /\ page = "TopicDetail"
    /\ state \in [mounted : {TRUE},
                  topic : [is_locked : BOOLEAN, replies_count : {0}],
                  replies : {<<>>},
                  replyContent : {<<>>},
                  submitting : {FALSE}]
    /\ calls = EmptyBag
    /\ shown = NoShown

\* the Textarea's onChange
setReplyContent(value) ==
    /\ page = "TopicDetail"
    /\ ReplyFormRendered
    /\ value # state.replyContent
    /\ state' = [state EXCEPT !.replyContent = value]
    /\ shown' = PageEvent("setReplyContent", NoCall, None, None, <<>>, <<>>,
                          None)
    /\ UNCHANGED <<page, calls>>
    /\ UNCHANGED sessionVars

\* handleSubmitReply up to its await, run by the form's onSubmit
handleSubmitReply ==
    /\ page = "TopicDetail"
    /\ ReplyFormRendered
    /\ ReplyButtonEnabled
    /\ Len(state.replies) < MaxReplies
    /\ IF ~isAuthenticated
       THEN /\ shown' = PageEvent("handleSubmitReply", NoCall, None, None,
                                  <<LoginRequiredToReply>>, <<>>, None)
            /\ UNCHANGED <<state, calls>>
       ELSE IF trim(state.replyContent) = <<>>
       THEN /\ shown' = PageEvent("handleSubmitReply", NoCall, None, None,
                                  <<>>, <<>>, None)
            /\ UNCHANGED <<state, calls>>
       ELSE IF state.topic.is_locked /\ ~isModerator
       THEN /\ shown' = PageEvent("handleSubmitReply", NoCall, None, None,
                                  <<TopicLocked>>, <<>>, None)
            /\ UNCHANGED <<state, calls>>
       ELSE LET call == ReplyCall(state.replyContent,
                                  [topic |-> state.topic,
                                   replies |-> state.replies])
            IN  /\ state' = [state EXCEPT !.submitting = TRUE]
                /\ calls' = Put(calls, call)
                /\ shown' = PageEvent("handleSubmitReply", call, "pending",
                                      None, <<>>, <<call>>, None)
    /\ UNCHANGED page
    /\ UNCHANGED sessionVars

\* handleSubmitReply from its await on: the reply was created
CreateReplyFulfilled(call) ==
    /\ page = "TopicDetail"
    /\ call.api = "createReply"
    /\ LET newReply == [content |-> call.content]
       IN  /\ state' = [state EXCEPT
                 !.replies = Append(call.closure.replies, newReply),
                 !.replyContent = <<>>,
                 !.topic = [call.closure.topic EXCEPT !.replies_count = @ + 1],
                 !.submitting = FALSE]
           /\ shown' = PageEvent("createReply", call, "ok", newReply,
                                 <<ReplyPosted>>, <<>>, None)
    /\ calls' = Take(calls, call)
    /\ UNCHANGED page
    /\ UNCHANGED sessionVars

\* handleSubmitReply from its await on: the call failed
CreateReplyRejected(call) ==
    /\ page = "TopicDetail"
    /\ call.api = "createReply"
    /\ state' = [state EXCEPT !.submitting = FALSE]
    /\ shown' = PageEvent("createReply", call, "error", None,
                          <<FailedToReply>>, <<>>, None)
    /\ calls' = Take(calls, call)
    /\ UNCHANGED page
    /\ UNCHANGED sessionVars

ReplyNext ==
    \/ \E value \in Strings : setReplyContent(value)
    \/ handleSubmitReply
    \/ \E call \in PageCalls : CreateReplyFulfilled(call)
    \/ \E call \in PageCalls : CreateReplyRejected(call)
    \/ logout /\ UNCHANGED pageVars

ReplySpec == ReplyInit /\ [][ReplyNext]_vars

\* ------------------------------------- CreateArticle and CreateTopic forms
\* the id of the route (useParams), None on a route without one
RouteIds == {None, "7"}
\* the ids the backend gives a saved article or topic
SavedIds == {"7", "8"}
\* formData.category: '' until an item of the Select is chosen
Categories == {"", "Anime"}
FormData == [title : Strings, content : Strings, category : Categories]

ValidationError ==
    <<"Validation Error", "Please fill in all required fields.">>

\* a create or update call with its payload
SaveCall(api, id, data) == [api |-> api, id |-> id, data |-> data]

IsInvalidUntrimmed(formData) ==
    \/ formData.title = <<>>
    \/ formData.content = <<>>
    \/ formData.category = ""

\* !formData.title.trim() || !formData.content.trim() || !formData.category
IsInvalid(formData) ==
    \/ trim(formData.title) = <<>>
    \/ trim(formData.content) = <<>>
    \/ formData.category = ""

FormInit ==
    /\ SessionSettled({"user"})
    /\ \/ /\ page = "CreateArticle"
          /\ \/ state = [mounted |-> TRUE, id |-> None, isEditMode |-> FALSE,
                         formData |-> [title |-> <<>>, content |-> <<>>,
                                       category |-> ""],
                         isLoading |-> FALSE]
             \/ state \in [mounted : {TRUE}, id : {"7"}, isEditMode : {TRUE},
                           formData : FormData, isLoading : {FALSE}]
       \/ /\ page = "CreateTopic"
          /\ state \in [mounted : {TRUE}, id : RouteIds,
                        formData : {[title |-> <<>>, content |-> <<>>,
                                     category |-> ""]},
                        isLoading : {FALSE}]
    /\ calls = EmptyBag
    /\ shown = NoShown

\* handleChange(field, value) of either form
handleChange(field, value) ==
    /\ page \in {"CreateArticle", "CreateTopic"}
    /\ state.mounted
    /\ ~state.isLoading
    /\ value # state.formData[field]
    /\ state' = [state EXCEPT !.formData = [@ EXCEPT ![field] = value]]
    /\ shown' = PageEvent("handleChange", NoCall, None, None, <<>>, <<>>,
                          None)
    /\ UNCHANGED <<page, calls>>
    /\ UNCHANGED sessionVars

SubmitCallUpdatesTopic ==
    IF page = "CreateTopic"
    THEN IF state.id # None
         THEN SaveCall("updateTopic", state.id, state.formData)
         ELSE SaveCall("createTopic", None, state.formData)
    ELSE IF state.isEditMode /\ state.id # None
    THEN SaveCall("updateArticle", state.id, state.formData)
    ELSE SaveCall("createArticle", None, state.formData)

\* the call handleSubmit awaits
SubmitCall ==
    IF page = "CreateTopic"
    THEN SaveCall("createTopic", None, state.formData)
    ELSE IF state.isEditMode /\ state.id # None
    THEN SaveCall("updateArticle", state.id, state.formData)
    ELSE SaveCall("createArticle", None, state.formData)

\* handleSubmit of either form up to its await
handleSubmit ==
    /\ page \in {"CreateArticle", "CreateTopic"}
    /\ state.mounted
    /\ ~state.isLoading
    /\ IF IsInvalid(state.formData)
       THEN /\ shown' = PageEvent("handleSubmit", NoCall, None, None,
                                  <<ValidationError>>, <<>>, None)
            /\ UNCHANGED <<state, calls>>
       ELSE /\ state' = [state EXCEPT !.isLoading = TRUE]
            /\ calls' = Put(calls, SubmitCall)
            /\ shown' = PageEvent("handleSubmit", SubmitCall, "pending",
                                  None, <<>>, <<SubmitCall>>, None)
    /\ UNCHANGED page
    /\ UNCHANGED sessionVars

SavedToast(api) ==
    <<"Success",
      CASE api = "updateArticle" -> "Article updated successfully."
        [] api = "createArticle" -> "Article published successfully."
        [] OTHER -> "Topic created successfully.">>

\* handleSubmit from its await on: saved, the form navigates away
SaveFulfilled(call) ==
    /\ page \in {"CreateArticle", "CreateTopic"}
    /\ \E id \in SavedIds :
         shown' = PageEvent(call.api, call, "ok", id, <<SavedToast(call.api)>>,
                            <<>>,
                            <<IF page = "CreateTopic" THEN "/forum/topics/"
                              ELSE "/articles/", id>>)
    /\ state' = [state EXCEPT !.isLoading = FALSE, !.mounted = FALSE]
    /\ calls' = Take(calls, call)
    /\ UNCHANGED page
    /\ UNCHANGED sessionVars

\* handleSubmit from its await on: the call failed
SaveRejected(call) ==
    /\ page \in {"CreateArticle", "CreateTopic"}
    /\ \E message \in Messages :
         shown' = PageEvent(call.api, call, "error", None,
                    << <<"Error",
                         MessageOr([message |-> message],
                                   IF page = "CreateTopic"
                                   THEN "Failed to create topic"
                                   ELSE "Failed to save article")>> >>,
                    <<>>, None)
    /\ state' = [state EXCEPT !.isLoading = FALSE]
    /\ calls' = Take(calls, call)
    /\ UNCHANGED page
    /\ UNCHANGED sessionVars

FormNext ==
    \/ \E field \in {"title", "content"} :
          \E value \in Strings : handleChange(field, value)
    \/ \E value \in Categories \ {""} : handleChange("category", value)
    \/ handleSubmit
    \/ \E call \in PageCalls : SaveFulfilled(call)
    \/ \E call \in PageCalls : SaveRejected(call)

FormSpec == FormInit /\ [][FormNext]_vars

\* -------------------------------------------------- Home: fetchHomeData
TopicIds == {1, 2}
\* the items of an articles page, the topics of a topics page
ArticleLists == {<<>>, <<1>>, <<2>>, <<1, 2>>, <<2, 1>>}
TopicLists == {<<>>, <<1>>, <<2>>, <<1, 2>>, <<2, 1>>}

FailedToLoadContent ==
    <<"Error", "Failed to load content. Please try again.">>

\* a fetch of the page and how its promise stands: "pending", "ok" with
\* the data delivered, or "error"
Fetch(api, settled, data) == [api |-> api, settled |-> settled, data |-> data]

\* the fetch of the given resource client among the page's calls
FetchOf(bag, api) == CHOOSE call \in BagToSet(bag) : call.api = api

PromiseAllAnyFulfilled(bag) ==
    IF \E call \in BagToSet(bag) : call.settled = "error" THEN "error"
    ELSE IF \E call \in BagToSet(bag) : call.settled = "ok" THEN "ok"
    ELSE "pending"

\* Promise.all over the page's fetches: rejected as soon as one of them
\* is, fulfilled when all are
PromiseAll(bag) ==
    IF \E call \in BagToSet(bag) : call.settled = "error" THEN "error"
    ELSE IF \A call \in BagToSet(bag) : call.settled = "ok" THEN "ok"
    ELSE "pending"

\* Home mounted: useEffect has run fetchHomeData up to its await
HomeInit ==
    /\ SessionSettled({None, "user"})
    /\ page = "Home"
    /\ state = [mounted |-> TRUE, articles |-> <<>>, popularTopics |-> <<>>,
                loading |-> TRUE]
    /\ calls = Put(Put(EmptyBag, Fetch("getArticles", "pending", <<>>)),
                   Fetch("getTopics", "pending", <<>>))
    /\ shown = PageEvent("fetchHomeData", NoCall, "pending", None, <<>>,
                         <<"getArticles", "getTopics">>, None)

\* one of the two fetches settles; fetchHomeData continues when that
\* settles the Promise.all it awaits
HomeFetchSettled(call, settled, data) ==
    /\ page = "Home"
    /\ call.settled = "pending"
    /\ LET done == Fetch(call.api, settled, data)
           bag == Put(Take(calls, call), done)
           before == PromiseAll(calls)
           after == PromiseAll(bag)
       IN  /\ calls' = bag
           /\ IF before = "pending" /\ after = "ok"
              THEN /\ state' = [state EXCEPT
                         !.articles = FetchOf(bag, "getArticles").data,
                         !.popularTopics = FetchOf(bag, "getTopics").data,
                         !.loading = FALSE]
                   /\ shown' = PageEvent(call.api, done, "ok", None, <<>>,
                                         <<>>, None)
              ELSE IF before = "pending" /\ after = "error"
              THEN /\ state' = [state EXCEPT !.loading = FALSE]
                   /\ shown' = PageEvent(call.api, done, "error", None,
                                         <<FailedToLoadContent>>, <<>>, None)
              ELSE /\ shown' = PageEvent(call.api, done, "ignored", None,
                                         <<>>, <<>>, None)
                   /\ UNCHANGED state
    /\ UNCHANGED page
    /\ UNCHANGED sessionVars

HomeNext ==
    \/ \E call \in PageCalls : \E items \in ArticleLists :
          call.api = "getArticles" /\ HomeFetchSettled(call, "ok", items)
    \/ \E call \in PageCalls : \E topics \in TopicLists :
          call.api = "getTopics" /\ HomeFetchSettled(call, "ok", topics)
    \/ \E call \in PageCalls : HomeFetchSettled(call, "error", <<>>)

HomeSpec == HomeInit /\ [][HomeNext]_vars

\* ------------------------- ArticleDetail, TopicDetail, Profile: the fetch
\* the id of the route (useParams), which the page's effect fetches
ParamIds == {"1", "2"}
DetailPages == {"ArticleDetail", "TopicDetail", "Profile"}

FailedToLoad ==
    <<"Error",
      CASE page = "ArticleDetail" -> "Failed to load article. Please try again."
        [] page = "TopicDetail" -> "Failed to load topic. Please try again."
        [] OTHER -> "Failed to load user profile. Please try again.">>

\* where the catch of the fetch navigates to
FetchFailedNavigate ==
    CASE page = "ArticleDetail" -> "/"
      [] page = "TopicDetail" -> "/forum"
      [] OTHER -> None

\* getArticle / getTopic / getUser of the id the effect ran with
DetailFetch(id) == [api |-> "get", id |-> id]

\* the page mounted on a route: its effect has run the fetch up to its
\* await; loaded is the id of the article, topic or profile the page holds
DetailInit ==
    /\ SessionSettled({None, "user"})
    /\ page \in DetailPages
    /\ \E id \in ParamIds :
         /\ state = [mounted |-> TRUE, id |-> id, loaded |-> None,
                     loading |-> TRUE]
         /\ calls = Put(EmptyBag, DetailFetch(id))
    /\ shown = PageEvent("useEffect", NoCall, "pending", None, <<>>, <<>>,
                         None)

\* the route parameter changes: same component, the effect runs again
DetailParamChanged(id) ==
    /\ page \in DetailPages
    /\ state.mounted
    /\ id # state.id
    /\ BagCardinality(calls) < MaxInFlight
    /\ state' = [state EXCEPT !.id = id]
    /\ calls' = Put(calls, DetailFetch(id))
    /\ shown' = PageEvent("useEffect", DetailFetch(id), "pending", None,
                          <<>>, <<DetailFetch(id)>>, None)
    /\ UNCHANGED page
    /\ UNCHANGED sessionVars

\* the user leaves the page: the component unmounts, its state is gone
DetailUnmount ==
    /\ page \in DetailPages
    /\ state.mounted
    /\ state' = [state EXCEPT !.mounted = FALSE]
    /\ shown' = PageEvent("unmount", NoCall, None, None, <<>>, <<>>, None)
    /\ UNCHANGED <<page, calls>>
    /\ UNCHANGED sessionVars

\* the fetch resolved: setArticle / setTopic / setUserProfile, then
\* finally setLoading(false); a state setter of an unmounted component
\* does nothing
DetailFetchFulfilled(call) ==
    /\ page \in DetailPages
    /\ calls' = Take(calls, call)
    /\ state' = IF state.mounted
                THEN [state EXCEPT !.loaded = call.id, !.loading = FALSE]
                ELSE state
    /\ shown' = PageEvent("get", call, "ok", call.id, <<>>, <<>>, None)
    /\ UNCHANGED page
    /\ UNCHANGED sessionVars

\* the fetch rejected: toast, navigate (ArticleDetail, TopicDetail), then
\* finally setLoading(false)
DetailFetchRejected(call) ==
    /\ page \in DetailPages
    /\ calls' = Take(calls, call)
    /\ state' = IF state.mounted
                THEN [state EXCEPT !.loading = FALSE,
                                   !.mounted = FetchFailedNavigate = None]
                ELSE state
    /\ shown' = PageEvent("get", call, "error", None, <<FailedToLoad>>,
                          <<>>, FetchFailedNavigate)
    /\ UNCHANGED page
    /\ UNCHANGED sessionVars

DetailNext ==
    \/ \E id \in ParamIds : DetailParamChanged(id)
    \/ DetailUnmount
    \/ \E call \in PageCalls : DetailFetchFulfilled(call)
    \/ \E call \in PageCalls : DetailFetchRejected(call)

DetailSpec == DetailInit /\ [][DetailNext]_vars

\* ---------------------------------------------- Search: performSearch
\* src/src/pages/Search.tsx: performSearch, the query effect and the two
\* search forms (the page's own and the header's in Layout).  Strings are
\* sequences of characters; "" is << >>.
MaxSearches == 3            \* searches in flight at once

SearchTerms == {<<"a">>, <<"B">>}
SearchInputs == {<<" ">>, <<"a">>, <<" ", "B">>}

\* String.prototype.toLowerCase on the characters used here
toLowerCase(s) ==
    [i \in 1 .. Len(s) |->
        IF s[i] = "A" THEN "a" ELSE IF s[i] = "B" THEN "b" ELSE s[i]]

\* String.prototype.includes
includes(s, t) ==
    \E i \in 0 .. (Len(s) - Len(t)) : SubSeq(s, i + 1, i + Len(t)) = t

\* the topics the backend can return, by id
SearchTopic(id) ==
    IF id = 1 THEN [title |-> <<"A", "b">>, content |-> <<>>]
    ELSE IF id = 2 THEN [title |-> <<"c">>, content |-> <<"b", "a">>]
    ELSE [title |-> <<"b">>, content |-> <<"c">>]

\* pages GET /forum/topics?limit=20 can answer with (it takes no search)
TopicPages == {<<>>, <<1, 3>>, <<2, 3>>, <<3, 2, 1>>}
\* items GET /articles?search=term can answer with
ArticleItems == {<<>>, <<1>>}

FailedToSearch == <<"Error", "Failed to perform search. Please try again.">>

\* lines 38-41: the client-side filter of the fetched topics
FilterTopics(topics, searchTerm) ==
    SelectSeq(topics, LAMBDA id :
        \/ includes(toLowerCase(SearchTopic(id).title),
                    toLowerCase(searchTerm))
        \/ includes(toLowerCase(SearchTopic(id).content),
                    toLowerCase(searchTerm)))

\* what a list on screen holds: the items and the search that fetched them
Results(searchTerm, items) == [search |-> searchTerm, items |-> items]

\* the Promise.all performSearch(searchTerm) awaits
SearchCall(searchTerm) == [api |-> "search", term |-> searchTerm]

\* n runs of lines 27-34 for the same term
performSearch(bag, searchTerm, n) ==
    IF n = 0 THEN bag
    ELSE IF n = 1 THEN Put(bag, SearchCall(searchTerm))
    ELSE Put(Put(bag, SearchCall(searchTerm)), SearchCall(searchTerm))

Sent(searchTerm, n) ==
    IF n = 0 THEN <<>>
    ELSE IF n = 1 THEN <<SearchCall(searchTerm)>>
    ELSE <<SearchCall(searchTerm), SearchCall(searchTerm)>>

\* the route /search or /search?q=term is opened: useState(query) and the
\* first run of the effect
SearchInit ==
    /\ SessionSettled({None, "user"})
    /\ page = "Search"
    /\ \E query \in {<<>>} \cup SearchTerms :
          LET n == IF query # <<>> THEN 1 ELSE 0
          IN  /\ state = [mounted |-> TRUE, query |-> query,
                          searchQuery |-> query,
                          articles |-> Results(<<>>, <<>>),
                          topics |-> Results(<<>>, <<>>),
                          loading |-> (n = 1), hasSearched |-> (n = 1)]
              /\ calls = performSearch(EmptyBag, query, n)
              /\ shown = PageEvent("mount", NoCall, None, None, <<>>,
                                   Sent(query, n), None)

\* line 84: typing in the page's search box
setSearchQuery(value) ==
    /\ page = "Search"
    /\ state.searchQuery # value
    /\ state' = [state EXCEPT !.searchQuery = value]
    /\ shown' = PageEvent("setSearchQuery", NoCall, None, None, <<>>, <<>>,
                          None)
    /\ UNCHANGED <<page, calls>>
    /\ UNCHANGED sessionVars

\* lines 61-67, and the effect of lines 54-59 when setSearchParams changed
\* the query; the submit button is disabled while loading (line 91)
SearchHandleSearch ==
    /\ page = "Search"
    /\ ~state.loading
    /\ LET term == trim(state.searchQuery)
           n == IF term = <<>> THEN 0
                ELSE IF term # state.query THEN 2 ELSE 1
       IN  /\ BagCardinality(calls) + n <= MaxSearches
           /\ calls' = performSearch(calls, term, n)
           /\ state' = IF n = 0 THEN state
                       ELSE [state EXCEPT
                               !.query = term,
                               !.searchQuery =
                                   IF n = 2 THEN term ELSE @,
                               !.loading = TRUE,
                               !.hasSearched = TRUE]
           /\ shown' = PageEvent("handleSearch", NoCall, None, None, <<>>,
                                 Sent(term, n), None)
    /\ UNCHANGED page
    /\ UNCHANGED sessionVars

\* api.ts 325-330: the header's form navigates to /search?q=term while
\* the page is open; the query changes and the effect of lines 54-59 runs
LayoutHandleSearch(term) ==
    /\ page = "Search"
    /\ term # state.query
    /\ BagCardinality(calls) < MaxSearches
    /\ calls' = performSearch(calls, term, 1)
    /\ state' = [state EXCEPT !.query = term, !.searchQuery = term,
                              !.loading = TRUE, !.hasSearched = TRUE]
    /\ shown' = PageEvent("navigate", NoCall, None, None, <<>>,
                          Sent(term, 1), <<"/search?q=", term>>)
    /\ UNCHANGED page
    /\ UNCHANGED sessionVars

\* lines 36-42 and 50: both calls of a search resolved
SearchFulfilled(call, items, topics) ==
    /\ page = "Search"
    /\ call \in PageCalls
    /\ call.api = "search"
    /\ calls' = Take(calls, call)
    /\ state' = [state EXCEPT
                   !.articles = Results(call.term, items),
                   !.topics = Results(call.term,
                                      FilterTopics(topics, call.term)),
                   !.loading = FALSE]
    /\ shown' = PageEvent("search", call, "ok",
                          [items |-> items, topics |-> topics], <<>>, <<>>,
                          None)
    /\ UNCHANGED page
    /\ UNCHANGED sessionVars

\* lines 43-50: one of the two calls of a search rejected
SearchRejected(call) ==
    /\ page = "Search"
    /\ call \in PageCalls
    /\ call.api = "search"
    /\ calls' = Take(calls, call)
    /\ state' = [state EXCEPT !.loading = FALSE]
    /\ shown' = PageEvent("search", call, "error", None,
                          <<FailedToSearch>>, <<>>, None)
    /\ UNCHANGED page
    /\ UNCHANGED sessionVars

SearchNext ==
    \/ \E value \in SearchInputs : setSearchQuery(value)
    \/ SearchHandleSearch
    \/ \E term \in SearchTerms : LayoutHandleSearch(term)
    \/ \E call \in PageCalls : \E items \in ArticleItems :
          \E topics \in TopicPages : SearchFulfilled(call, items, topics)
    \/ \E call \in PageCalls : SearchRejected(call)

SearchSpec == SearchInit /\ [][SearchNext]_vars

\* --------------------------------------------------- Forum: pagination
\* src/unnamed/part_001: fetchTopics, fetchCategories, the reload effect
\* and the pagination controls.  The controls are rendered only when
\* loading is false (lines 71-88), so one load runs at a time.
MaxPages == 6               \* pages of the largest topic list

ForumCategories == {"anime", "manga"}
SortKeys == {"created_at", "views"}

\* response.pages of the backend for a category filter
PagesOf(category) ==
    IF category = "all" THEN MaxPages
    ELSE IF category = "manga" THEN 3
    ELSE 1

FailedToLoadTopics == <<"Error", "Failed to load topics. Please try again.">>
FailedToLoadCategories == <<"Error", "Failed to load categories.">>

\* lines 26-36: the parameters fetchTopics sends
TopicsCall(s) ==
    [api |-> "getTopics", page |-> s.currentPage,
     category |-> s.selectedCategory, sort |-> s.sortBy]
CategoriesCall == [api |-> "getCategories"]

\* lines 61-69: the effect starts loadData
loadData(s) == Put(Put(EmptyBag, TopicsCall(s)), CategoriesCall)
Loading(s) == [s EXCEPT !.loading = TRUE]

Min(a, b) == IF a < b THEN a ELSE b

\* line 249: the number on the i-th button
PageAt(s, i) ==
    IF s.currentPage <= 3 THEN i + 1 ELSE s.currentPage - 2 + i

\* lines 237-263: the numbers of the page buttons on screen
PageButtons(s) ==
    IF s.totalPages > 1
    THEN {p \in {PageAt(s, i) : i \in 0 .. (Min(5, s.totalPages) - 1)} :
             p <= s.totalPages}
    ELSE {}

\* the route /forum is opened: the initial state of lines 16-22 and the
\* first run of the effect
ForumInit ==
    /\ SessionSettled({None, "user"})
    /\ page = "Forum"
    /\ state = [mounted |-> TRUE, topics |-> <<>>, categories |-> {},
                loading |-> TRUE, selectedCategory |-> "all",
                sortBy |-> "created_at", currentPage |-> 1,
                totalPages |-> 1]
    /\ calls = loadData(state)
    /\ shown = PageEvent("mount", NoCall, "pending", None, <<>>,
                         <<TopicsCall(state), CategoriesCall>>, None)

\* a control changed one of the effect's dependencies: the component
\* renders with s and the effect runs again
Reload(op, s) ==
    /\ page = "Forum"
    /\ ~state.loading
    /\ state' = Loading(s)
    /\ calls' = loadData(s)
    /\ shown' = PageEvent(op, NoCall, "pending", None, <<>>,
                          <<TopicsCall(s), CategoriesCall>>, None)
    /\ UNCHANGED page
    /\ UNCHANGED sessionVars

\* line 257: a page button
setCurrentPage(p) ==
    /\ p \in PageButtons(state)
    /\ p # state.currentPage
    /\ Reload("setCurrentPage", [state EXCEPT !.currentPage = p])

\* lines 239-245
Previous ==
    /\ state.totalPages > 1
    /\ state.currentPage # 1
    /\ Reload("Previous", [state EXCEPT !.currentPage = @ - 1])

\* lines 265-271; the model stops counting at MaxPages
NextPage ==
    /\ state.totalPages > 1
    /\ state.currentPage # state.totalPages
    /\ state.currentPage < MaxPages
    /\ Reload("Next", [state EXCEPT !.currentPage = @ + 1])

\* lines 112-124 and 287: the select lists "all" and the fetched
\* categories, the sidebar the fetched categories
setSelectedCategory(category) ==
    /\ category \in {"all"} \cup state.categories
    /\ category # state.selectedCategory
    /\ Reload("setSelectedCategory",
              [state EXCEPT !.selectedCategory = category])

\* lines 128-138
setSortBy(sort) ==
    /\ sort # state.sortBy
    /\ Reload("setSortBy", [state EXCEPT !.sortBy = sort])

\* line 65: loadData continues when both fetches have settled
LoadedWhenDone(s, bag) ==
    IF bag = EmptyBag THEN [s EXCEPT !.loading = FALSE] ELSE s

\* lines 36-38: the backend answers the page asked for; a page past the
\* last one of the category comes back empty
FetchTopicsFulfilled(call) ==
    /\ page = "Forum"
    /\ call \in PageCalls
    /\ call.api = "getTopics"
    /\ LET bag == Take(calls, call)
           pages == PagesOf(call.category)
           topics == IF call.page <= pages THEN <<call>> ELSE <<>>
       IN  /\ calls' = bag
           /\ state' = LoadedWhenDone([state EXCEPT !.topics = topics,
                                                    !.totalPages = pages],
                                      bag)
           /\ shown' = PageEvent("getTopics", call, "ok",
                                 [topics |-> topics, pages |-> pages],
                                 <<>>, <<>>, None)
    /\ UNCHANGED page
    /\ UNCHANGED sessionVars

\* lines 39-45: the request failed (network, or an error status such as
\* 404 for a page past the last one)
FetchTopicsRejected(call) ==
    /\ page = "Forum"
    /\ call \in PageCalls
    /\ call.api = "getTopics"
    /\ calls' = Take(calls, call)
    /\ state' = LoadedWhenDone(state, calls')
    /\ shown' = PageEvent("getTopics", call, "error", None,
                          <<FailedToLoadTopics>>, <<>>, None)
    /\ UNCHANGED page
    /\ UNCHANGED sessionVars

\* lines 48-59
FetchCategoriesSettled(call, result) ==
    /\ page = "Forum"
    /\ call \in PageCalls
    /\ call.api = "getCategories"
    /\ calls' = Take(calls, call)
    /\ state' = LoadedWhenDone(
                    IF result = "ok"
                    THEN [state EXCEPT !.categories = ForumCategories]
                    ELSE state,
                    calls')
    /\ shown' = PageEvent("getCategories", call, result, None,
                          IF result = "ok" THEN <<>>
                          ELSE <<FailedToLoadCategories>>,
                          <<>>, None)
    /\ UNCHANGED page
    /\ UNCHANGED sessionVars

ForumNext ==
    \/ \E p \in 1 .. MaxPages : setCurrentPage(p)
    \/ Previous
    \/ NextPage
    \/ \E category \in {"all"} \cup ForumCategories :
          setSelectedCategory(category)
    \/ \E sort \in SortKeys : setSortBy(sort)
    \/ \E call \in PageCalls : FetchTopicsFulfilled(call)
    \/ \E call \in PageCalls : FetchTopicsRejected(call)
    \/ \E call \in PageCalls : \E result \in {"ok", "error"} :
          FetchCategoriesSettled(call, result)

ForumSpec == ForumInit /\ [][ForumNext]_vars

\* ===================================================================
\* Properties
\* ===================================================================
StoredAccess == getItem(localStorage, "access_token")
StoredRefresh == getItem(localStorage, "refresh_token")
Settled == last.req.pc = "done"
\* the calls in flight besides one copy of req
Others(bag, req) == BagToSet(Take(bag, req))

\* C1: every request sent through the api client carries
\* Authorization: Bearer <t> exactly when an access token t is stored at
\* the moment it is sent, and no Authorization header when none is stored.
C1_AuthorizationIffStoredToken ==
    \A i \in DOMAIN last.wire :
        last.wire[i].client = "api" =>
            /\ StoredAccess # None => last.wire[i].hdr = Bearer(StoredAccess)
            /\ StoredAccess = None => last.wire[i].hdr = NoHeader

C1_Witness ==
    /\ last.op = "call"
    /\ last.req.kind = "resource"
    /\ last.wire = << Wire("api", "resource", Bearer("a2")) >>
    /\ StoredAccess = "a2"

\* C2: with a stored refresh token the refresh endpoint accepts, a
\* request that receives 401 once makes the client call the refresh
\* endpoint, store the returned access token under 'access_token' and
\* replay the request with it; the caller receives the replay's
\* successful response, with no sign-out, redirect or token clearing.
C2_RefreshAndReplay ==
    [][/\ (/\ last'.op = "response"
           /\ last'.err.status = 401
           /\ last'.before.sends = 1
           /\ StoredRefresh # None) =>
              /\ last'.req.pc = "refreshing"
              /\ last'.req.refreshes = 1
              /\ last'.req \in InFlight'
              /\ last'.wire = << Wire("axios", "refresh",
                                      Bearer(StoredRefresh)) >>
              /\ localStorage' = localStorage
       /\ (last'.op = "refreshResponse" /\ last'.err = NoErr) =>
              /\ last'.data.access_token \in AccessTokens
              /\ StoredAccess' = last'.data.access_token
              /\ StoredRefresh' = StoredRefresh
              /\ last'.req.pc = "sent"
              /\ last'.req.sends = 2
              /\ last'.req \in InFlight'
              /\ last'.wire = << Wire("api", last'.req.kind,
                                      Bearer(last'.data.access_token)) >>
       /\ (/\ last'.op = "response"
           /\ last'.before.sends = 2
           /\ last'.err = NoErr) =>
              /\ last'.result = "ok"
              /\ ~last'.thrown
              /\ last'.req.refreshes = 1
              /\ last'.req.signouts = 0
              /\ StoredAccess # None => StoredAccess' # None
              /\ StoredRefresh # None => StoredRefresh' # None
              /\ last'.req.kind = "resource" =>
                    localStorage' = localStorage /\ user' = user
    ]_vars

C2_Witness ==
    /\ Settled
    /\ last.req.kind = "resource"
    /\ last.req.sends = 2
    /\ last.result = "ok"
    /\ StoredAccess # None

\* C3: a request is replayed at most once however many 401 responses it
\* receives, and the retried flag is per request: a request that has been
\* retried never keeps another request's first 401 from triggering that
\* request's own refresh and replay.
C3_RetryOncePerRequest ==
    [][/\ \A q \in InFlight' \cup {last'.req} :
              q.sends <= 2 /\ q.refreshes <= 1
       /\ (/\ last'.op = "response"
           /\ last'.err.status = 401
           /\ last'.before.retry) =>
              /\ last'.req.pc = "done"
              /\ last'.req.sends = last'.before.sends
              /\ last'.req.refreshes = last'.before.refreshes
              /\ last'.wire = <<>>
       /\ (/\ last'.op = "response"
           /\ last'.err.status = 401
           /\ last'.before.sends = 1
           /\ StoredRefresh # None
           /\ \E q \in Others(reqs, last'.before) : q.retry) =>
              /\ last'.req.pc = "refreshing"
              /\ last'.req.retry
              /\ Take(reqs', last'.req) = Take(reqs, last'.before)
    ]_vars

C3_Witness ==
    /\ last.op = "response"
    /\ last.req.pc = "refreshing"
    /\ \E q \in Others(reqs, last.req) : q.retry /\ q.sends = 2

\* C4: when a request receives 401 and the refresh call made with the
\* stored refresh token fails, both tokens are removed, the session is
\* redirected to /login exactly once for that request, the request is not
\* replayed and no further refresh is attempted for it.
C4_RefreshFailureSignsOut ==
    (last.op = "refreshResponse" /\ last.err.from = "refreshError") =>
        /\ StoredAccess = None
        /\ StoredRefresh = None
        /\ last.req.signouts = 1
        /\ last.req.sends = 1
        /\ last.req.refreshes = 1
        /\ last.req.pc = "done"
        /\ last.result = "refreshError"
        /\ last.wire = <<>>

C4_Witness ==
    /\ last.op = "refreshResponse"
    /\ last.err.from = "refreshError"
    /\ last.req.kind = "resource"
    /\ last.req.signouts = 1
    /\ \E q \in InFlight : q.pc = "refreshing"

\* C5: when the replayed request itself receives 401 the outcome is
\* terminal signed-out: no second refresh and no second replay, and the
\* session ends signed out (both tokens cleared, redirected to sign-in).
C5_SecondUnauthorizedSignsOut ==
    (last.op = "response" /\ last.err.status = 401 /\ last.before.sends = 2)
    =>  /\ last.req.pc = "done"
        /\ last.req.sends = 2
        /\ last.req.refreshes = 1
        /\ last.wire = <<>>
        /\ StoredAccess = None
        /\ StoredRefresh = None
        /\ last.req.signouts = 1

\* C6: the refresh-and-replay sequence of a request is sequential: the
\* replay is sent only after the refresh call has succeeded and the new
\* access token has been stored, and it carries that new token, never the
\* token that produced the 401.
C6_ReplayAfterRefreshWithNewToken ==
    /\ \A q \in InFlight : q.sends = 2 => q.retry /\ q.refreshes = 1
    /\ (last.req.pc = "sent" /\ last.req.sends = 2) =>
          /\ last.op = "refreshResponse"
          /\ last.before.pc = "refreshing"
          /\ last.before.refreshes = 1
          /\ last.err = NoErr
          /\ last.data.access_token \in AccessTokens
          /\ StoredAccess = last.data.access_token
          /\ last.wire = << Wire("api", last.req.kind,
                                 Bearer(last.data.access_token)) >>

C6_Witness ==
    /\ last.op = "refreshResponse"
    /\ last.req.pc = "sent"
    /\ last.req.sends = 2
    /\ last.wire = << Wire("api", "resource", Bearer("a2")) >>
    /\ StoredAccess = "a2"

\* C7: logout() removes both stored tokens and sets the current user to
\* null in one synchronous step that issues no request to the backend;
\* right afterwards isAuthenticated, isModerator and isAdmin are false.
C7_LogoutClearsSession ==
    [][last'.op = "logout" =>
         /\ StoredAccess' = None
         /\ StoredRefresh' = None
         /\ user' = None
         /\ reqs' = reqs
         /\ last'.wire = <<>>
         /\ ~isAuthenticated' /\ ~isModerator' /\ ~isAdmin'
    ]_vars

C7_Witness ==
    /\ last.op = "logout"
    /\ StoredAccess = None
    /\ StoredRefresh = None
    /\ InFlight # {}

\* C8: session initialization: with an access token stored at startup
\* exactly one identity call is made and on success the current user is
\* the returned user; on any failure of that call both tokens are removed
\* and the session is signed out (user null); with no access token stored
\* no identity call is made; loading is true from startup until the check
\* settles and false from then on.
C8_SessionInitialization ==
    /\ loading = (checkpc # "settled")
    /\ \A q \in InFlight : q.kind = "me" =>
          checkpc = "await" /\ CopiesIn(q, reqs) = 1
    /\ Cardinality({q \in InFlight : q.kind = "me"}) =
          (IF checkpc = "await" THEN 1 ELSE 0)
    /\ last.op = "checkAuth" =>
          StoredAccess = None /\ user = None /\ checkpc = "settled"
    /\ (Settled /\ last.req.kind = "me" /\ last.result = "ok") =>
          user = last.data.user /\ user \in Roles
    /\ (Settled /\ last.req.kind = "me" /\ last.result # "ok") =>
          StoredAccess = None /\ StoredRefresh = None /\ user = None

\* C9: a successful login or register stores the returned access token
\* and refresh token under their keys and sets the current user to the
\* returned user record, so that isAuthenticated is true afterwards.
C9_LoginRegisterEstablishSession ==
    (Settled /\ last.req.kind \in {"login", "register"}
             /\ last.result = "ok") =>
        /\ last.data.access_token \in AccessTokens
        /\ last.data.refresh_token \in RefreshTokens
        /\ last.data.user \in Roles
        /\ StoredAccess = last.data.access_token
        /\ StoredRefresh = last.data.refresh_token
        /\ user = last.data.user
        /\ isAuthenticated
        /\ ~last.thrown

C9_Witness ==
    /\ Settled
    /\ last.req.kind = "login"
    /\ last.result = "ok"
    /\ isAuthenticated
    /\ StoredAccess = "a2"

\* C10: a failed login surfaces the server-provided message, or
\* 'Login failed' when none is provided, writes no token, sets no current
\* user, re-throws the error to the caller and leaves the session
\* unauthenticated (the catch of login changes neither store nor user).
C10_FailedLogin ==
    [][(/\ last'.req.kind = "login"
        /\ last'.req.pc = "done"
        /\ last'.result # "ok") =>
           /\ last'.toasts # <<>>
           /\ last'.toasts[Len(last'.toasts)] =
                 <<"Login Failed",
                   IF last'.err.message \in {None, ""}
                   THEN "Login failed" ELSE last'.err.message>>
           /\ last'.thrown
           /\ user' = user
           /\ ~isAuthenticated => ~isAuthenticated'
           /\ StoredAccess' \in {StoredAccess, None}
           /\ StoredRefresh' \in {StoredRefresh, None}
           /\ last'.op = "response" => localStorage' = localStorage
    ]_vars

C10_Witness ==
    /\ Settled
    /\ last.req.kind = "login"
    /\ last.result = "error"
    /\ last.err.message = "Invalid credentials"
    /\ ~isAuthenticated

\* C11: in every reachable session state isAuthenticated is true exactly
\* when a current user is set, isModerator exactly when the user's role is
\* 'moderator' or 'admin', isAdmin exactly when the role is 'admin'; hence
\* isAdmin implies isModerator implies isAuthenticated, and for role 'user'
\* only isAuthenticated is true.
C11_DerivedFlags ==
    /\ user \in Roles \cup {None}
    /\ isAuthenticated <=> user \in Roles
    /\ isModerator <=> user \in {"moderator", "admin"}
    /\ isAdmin <=> user = "admin"
    /\ isAdmin => isModerator
    /\ isModerator => isAuthenticated
    /\ user = "user" => isAuthenticated /\ ~isModerator /\ ~isAdmin

C11_Witness ==
    /\ user = "admin"
    /\ isAdmin /\ isModerator /\ isAuthenticated
    /\ Settled
    /\ last.req.kind = "me"
    /\ last.result = "ok"

\* the notifications of a step that carry the given title
Titled(toasts, title) == {i \in DOMAIN toasts : toasts[i][1] = title}

\* C12: a response with status 403 triggers exactly one 'Access Denied'
\* notification and a response with status 500 or above exactly one
\* 'Server Error' notification; in both cases no refresh and no replay
\* happen, the interceptor hands the stored tokens unchanged to the
\* caller's own handler, and the error is still rejected to the caller.
C12_ForbiddenAndServerErrorNotify ==
    [][(/\ last'.op = "response"
        /\ (last'.err.status = 403 \/ last'.err.status >= 500)) =>
           /\ last'.toasts # <<>>
           /\ last'.toasts[1] =
                 <<IF last'.err.status = 403 THEN "Access Denied"
                   ELSE "Server Error", None>>
           /\ Cardinality(Titled(last'.toasts, "Access Denied")) =
                 (IF last'.err.status = 403 THEN 1 ELSE 0)
           /\ Cardinality(Titled(last'.toasts, "Server Error")) =
                 (IF last'.err.status = 403 THEN 0 ELSE 1)
           /\ last'.req = [last'.before EXCEPT !.pc = "done"]
           /\ last'.wire = <<>>
           /\ reqs' = Take(reqs, last'.before)
           /\ last'.result = "error"
           /\ last'.req.kind # "me" =>
                 last'.thrown /\ localStorage' = localStorage
           /\ last'.req.kind = "me" =>
                 localStorage' =
                     checkAuth(localStorage, FALSE, NoData, last'.err).ls
    ]_vars

C12_Witness ==
    /\ last.op = "response"
    /\ last.err.status = 403
    /\ last.req.kind = "resource"
    /\ last.before.sends = 2
    /\ last.toasts = << <<"Access Denied", None>> >>
    /\ StoredAccess # None
    /\ StoredRefresh # None

\* C13: for every error response whose status is not 401, not 403 and
\* below 500, and for transport failures with no response, the interceptor
\* rejects to the caller with the same error and has no side effect: no
\* notification of its own, no refresh, no replay, no token change, no
\* redirect.
C13_OtherErrorsPropagateUnchanged ==
    [][(/\ last'.op = "response"
        /\ last'.err # NoErr
        /\ last'.err.status \notin {401, 403}
        /\ last'.err.status < 500) =>
           /\ last'.result = "error"
           /\ last'.err.from = "error"
           /\ Titled(last'.toasts, "Access Denied") = {}
           /\ Titled(last'.toasts, "Server Error") = {}
           /\ last'.req.kind \in {"me", "resource"} => last'.toasts = <<>>
           /\ last'.req.kind \in {"login", "register"} =>
                 Len(last'.toasts) = 1
           /\ last'.req = [last'.before EXCEPT !.pc = "done"]
           /\ last'.wire = <<>>
           /\ reqs' = Take(reqs, last'.before)
           /\ last'.req.kind # "me" =>
                 last'.thrown /\ localStorage' = localStorage
           /\ last'.req.kind = "me" =>
                 localStorage' =
                     checkAuth(localStorage, FALSE, NoData, last'.err).ls
    ]_vars

C13_Witness ==
    /\ last.op = "response"
    /\ last.err.status = 0
    /\ last.req.kind = "resource"
    /\ last.toasts = <<>>
    /\ last.thrown
    /\ last.req.signouts = 0
    /\ StoredAccess # None
    /\ StoredRefresh # None

\* C14: the refresh token is sent as a bearer credential only on the POST
\* /auth/refresh call made by the 401 handler; no request to any other
\* endpoint ever carries the refresh token in its Authorization header.
C14_RefreshTokenOnlyToRefreshEndpoint ==
    \A i \in DOMAIN last.wire :
        LET w == last.wire[i]
        IN  /\ (\E r \in RefreshTokens : w.hdr = Bearer(r)) =>
                  /\ w.client = "axios"
                  /\ w.endpoint = "refresh"
                  /\ last.op = "response"
                  /\ last.err.status = 401
                  /\ last.req.pc = "refreshing"
                  /\ w.hdr = Bearer(StoredRefresh)
            /\ w.endpoint # "refresh" =>
                  w.hdr = NoHeader \/ \E a \in AccessTokens : w.hdr = Bearer(a)

C14_Witness ==
    /\ last.op = "response"
    /\ last.err.status = 401
    /\ last.wire = << Wire("axios", "refresh", Bearer("r1")) >>
    /\ StoredRefresh = "r1"
    /\ \E q \in Others(reqs, last.req) : q.pc = "sent"

\* C15: once the session check has finished, an unauthenticated user
\* reaching any protected route is redirected to /login with the
\* originally requested location carried in the navigation state (from);
\* the protected children are never rendered for an unauthenticated user.
C15_UnauthenticatedRedirectedToLogin ==
    \A path \in ProtectedPaths :
        /\ (checkpc = "settled" /\ ~isAuthenticated) =>
              ProtectedRoute(path) = Navigate("/login", path)
        /\ ~isAuthenticated =>
              \A m, a \in BOOLEAN : PrivateRoute(m, a, path) # Children

C15_Witness ==
    /\ last.op = "logout"
    /\ checkpc = "settled"
    /\ ~isAuthenticated
    /\ ProtectedRoute("/profile/edit") = Navigate("/login", "/profile/edit")

\* what the role checks of a route let through
RolesMet(requireModerator, requireAdmin) ==
    /\ requireAdmin => isAdmin
    /\ requireModerator => isModerator

\* C16 (as stated): for an authenticated user a route marked requireAdmin
\* renders its children only when isAdmin is true and a route marked
\* requireModerator only when isModerator is true; otherwise the user is
\* redirected to '/' (not to /login).
C16_RoleRoutes ==
    \A path \in ProtectedPaths : \A m, a \in BOOLEAN :
        isAuthenticated =>
            PrivateRoute(m, a, path) =
                (IF RolesMet(m, a) THEN Children ELSE Navigate("/", None))

\* C16 (amended): the same once the session check is no longer pending
\* (loading false); while loading is true the route renders the loading
\* placeholder, neither the children nor a redirect.
C16_RoleRoutesAfterLoading ==
    \A path \in ProtectedPaths : \A m, a \in BOOLEAN :
        isAuthenticated =>
            /\ PrivateRoute(m, a, path) = Children => RolesMet(m, a)
            /\ PrivateRoute(m, a, path) # Navigate("/login", path)
            /\ ~loading =>
                  PrivateRoute(m, a, path) =
                      (IF RolesMet(m, a) THEN Children
                       ELSE Navigate("/", None))
            /\ loading => PrivateRoute(m, a, path) = Placeholder

C16_Witness ==
    /\ ~loading
    /\ user = "moderator"
    /\ PrivateRoute(FALSE, TRUE, "/profile/edit") = Navigate("/", None)
    /\ PrivateRoute(TRUE, FALSE, "/profile/edit") = Children

\* C19: while the session check is pending (loading true) a protected
\* route renders neither its children nor a redirect, so a page load with
\* a valid stored access token on a protected route is never redirected
\* to /login before the identity call settles.
C19_NoRedirectWhileLoading ==
    \A path \in ProtectedPaths :
        /\ loading =>
              \A m, a \in BOOLEAN : PrivateRoute(m, a, path) = Placeholder
        /\ checkpc # "settled" => loading
        /\ (\E q \in InFlight : q.kind = "me") =>
              /\ ProtectedRoute(path) # Children
              /\ ProtectedRoute(path).render # "Navigate"

C19_Witness ==
    /\ checkpc = "await"
    /\ loading
    /\ ~isAuthenticated
    /\ StoredAccess # None
    /\ \E q \in InFlight : q.kind = "me" /\ q.pc = "sent" /\ q.sends = 2
    /\ ProtectedRoute("/create-article") = Placeholder

\* the answer a toggling backend gives for an article in the given state
IsToggleOf(response, article) ==
    /\ response.liked = ~article.user_liked
    /\ response.likes_count =
          (IF article.user_liked THEN article.likes - 1 ELSE article.likes + 1)

\* the article a like call is about, as the page holds it
LikedArticle(st, call) ==
    IF page = "Home" THEN st.articles[call.id] ELSE st.article

\* C17: when a like call on an article succeeds with {liked, likes_count}
\* the view sets that article's user_liked to liked and its likes to
\* likes_count exactly as returned, never computing +1/-1 locally, so a
\* toggling answer for an already-liked article leaves it unliked with
\* one like fewer and for an unliked article liked with one like more;
\* when the call fails, or the user is not authenticated (no call is
\* made), the article is unchanged.
C17_LikeAsReturned ==
    [][/\ (shown'.op = "likeArticle" /\ shown'.result = "ok") =>
             LET after == LikedArticle(state', shown'.call)
                 before == LikedArticle(state, shown'.call)
             IN  /\ after.user_liked = shown'.data.liked
                 /\ after.likes = shown'.data.likes_count
                 /\ (IsToggleOf(shown'.data, before) /\ before.user_liked) =>
                        ~after.user_liked /\ after.likes = before.likes - 1
                 /\ (IsToggleOf(shown'.data, before) /\ ~before.user_liked) =>
                        after.user_liked /\ after.likes = before.likes + 1
       /\ (shown'.op = "likeArticle" /\ shown'.result = "error") =>
             /\ state' = state
             /\ shown'.toasts = <<FailedToLike>>
       /\ (shown'.op = "handleLikeArticle" /\ ~isAuthenticated) =>
             /\ state' = state
             /\ calls' = calls
             /\ shown'.sent = <<>>
             /\ shown'.toasts = <<LoginRequiredToLike>>
       /\ (shown'.op = "handleLikeArticle" /\ shown'.sent # <<>>) =>
             /\ state' = state
             /\ isAuthenticated
             /\ shown'.sent = <<shown'.call>>
             /\ shown'.call.api = "likeArticle"
    ]_vars

C17_Witness ==
    /\ page = "Home"
    /\ shown.op = "likeArticle"
    /\ shown.result = "ok"
    /\ shown.call.id = 1
    /\ shown.call.closure[1] = [likes |-> 1, user_liked |-> TRUE]
    /\ shown.data = [liked |-> FALSE, likes_count |-> 0]
    /\ state.articles[1] = [likes |-> 0, user_liked |-> FALSE]

\* C18: a locked topic accepts no new replies from a non-moderator (no
\* create-reply call is issued and the local reply list is unchanged),
\* while a moderator may still reply to a locked topic; a reply never
\* appears in the local list unless the server accepted it.
C18_LockedTopicReplies ==
    /\ (state.topic.is_locked /\ ~isModerator) =>
          /\ ~ReplyFormRendered
          /\ calls = EmptyBag
          /\ state.replies = <<>>
    /\ (state.topic.is_locked /\ isModerator) => ReplyFormRendered
    /\ (shown.op = "createReply" /\ shown.result = "ok") =>
          state.replies = Append(shown.call.closure.replies, shown.data)
    /\ (shown.op = "createReply" /\ shown.result = "error") =>
          state.replies = shown.call.closure.replies
    /\ shown.op = "handleSubmitReply" =>
          state.replies = shown.call.closure.replies
    /\ Len(state.replies) = state.topic.replies_count

\* C20: submitting the article form or the topic form with a title or a
\* content that is empty or whitespace-only, or with no category selected,
\* issues no create/update call, shows a validation notification and
\* leaves the form data unchanged; with all three present exactly one
\* create or update call is issued per submission.
C20_FormValidation ==
    [][shown'.op = "handleSubmit" =>
        LET formData == state.formData
            blank(s) == \A i \in DOMAIN s : s[i] = " "
            missing == \/ blank(formData.title)
                       \/ blank(formData.content)
                       \/ formData.category = ""
        IN  /\ state'.formData = formData
            /\ missing =>
                  /\ shown'.sent = <<>>
                  /\ calls' = calls
                  /\ shown'.toasts = <<ValidationError>>
                  /\ state' = state
            /\ ~missing =>
                  /\ Len(shown'.sent) = 1
                  /\ shown'.sent[1].api \in
                        {"createArticle", "updateArticle", "createTopic"}
                  /\ shown'.sent[1].data = formData
                  /\ calls' = Put(calls, shown'.sent[1])
                  /\ BagCardinality(calls') = 1
                  /\ shown'.toasts = <<>>
    ]_vars

C20_Witness ==
    /\ page = "CreateArticle"
    /\ shown.op = "handleSubmit"
    /\ shown.toasts = <<ValidationError>>
    /\ state.formData.title = <<" ", " ">>
    /\ state.formData.content = <<"a">>
    /\ state.formData.category = "Anime"
    /\ calls = EmptyBag

\* C21: on the landing view the articles fetch and the topics fetch run
\* concurrently and, under every completion order, the view leaves its
\* loading state only after both have settled successfully or one has
\* failed; the article list and the popular-topic list are set together,
\* only when both fetches succeeded, and stay empty when either failed.
C21_HomeFetchesJoin ==
    LET a == FetchOf(calls, "getArticles")
        t == FetchOf(calls, "getTopics")
        both == a.settled = "ok" /\ t.settled = "ok"
        failed == a.settled = "error" \/ t.settled = "error"
    IN  /\ ~state.loading <=> (both \/ failed)
        /\ both => state.articles = a.data /\ state.popularTopics = t.data
        /\ ~both => state.articles = <<>> /\ state.popularTopics = <<>>
        /\ shown.result = "ok" <=> both
        /\ shown.toasts # <<>> =>
              failed /\ shown.toasts = <<FailedToLoadContent>>

C21_Witness ==
    /\ page = "Home"
    /\ ~state.loading
    /\ state.articles = <<2, 1>>
    /\ state.popularTopics = <<1>>
    /\ shown.op = "getArticles"
    /\ shown.result = "ok"

\* C22: when a view is unmounted, or its route parameter changes, before
\* one of its fetches resolves, the late result is discarded: it changes
\* no view state and triggers no navigation.
C22_LateResultDiscarded ==
    [][(/\ shown'.op = "get"
        /\ (~state.mounted \/ shown'.call.id # state.id)) =>
           /\ state' = state
           /\ shown'.navigate = None
    ]_vars

\* a login or register call that succeeds in the step just taken
SignedIn(ev) ==
    /\ ev.req.kind \in {"login", "register"}
    /\ ev.req.pc = "done"
    /\ ev.result = "ok"

\* C23: once logout() has run, no access token and no refresh token are
\* stored and the current user is null, and this keeps holding until a
\* later login or register call succeeds, even when an identity check or
\* a 401-triggered token refresh that was already in flight at the time
\* of logout completes afterwards (stated for the step that follows
\* logout).
C23_SignedOutAfterLogout ==
    [][(last.op = "logout" /\ ~SignedIn(last')) =>
           /\ StoredAccess' = None
           /\ StoredRefresh' = None
           /\ user' = None
    ]_vars

\* C24: in every reachable state, whenever the session context holds a
\* current user (isAuthenticated true) an access token is stored, under
\* all interleavings of the startup identity check, login/register,
\* logout and 401 refresh handling.
C24_UserImpliesAccessToken ==
    isAuthenticated => StoredAccess # None

\* C25: starting from a token store that holds both tokens or neither, an
\* access token is stored only while a refresh token is also stored, in
\* every reachable state, including when several requests receive 401
\* concurrently and one request's refresh succeeds while another's fails.
C25_AccessOnlyWithRefresh ==
    StoredAccess # None => StoredRefresh # None

\* C26: when a request receives 401 and no refresh token is stored, the
\* interceptor makes no refresh call and no replay, leaves the stored
\* access token in place, performs no redirect and shows no notification,
\* and rejects to the caller with the original 401 error.
C26_UnauthorizedWithoutRefreshToken ==
    [][(/\ last'.op = "response"
        /\ last'.err.status = 401
        /\ StoredRefresh = None) =>
           /\ last'.wire = <<>>
           /\ last'.req.pc = "done"
           /\ last'.req.sends = last'.before.sends
           /\ last'.req.refreshes = last'.before.refreshes
           /\ last'.req.signouts = last'.before.signouts
           /\ reqs' = Take(reqs, last'.before)
           /\ Titled(last'.toasts, "Access Denied") = {}
           /\ Titled(last'.toasts, "Server Error") = {}
           /\ last'.req.kind \in {"me", "resource"} => last'.toasts = <<>>
           /\ last'.req.kind \in {"login", "register"} =>
                 /\ Len(last'.toasts) = 1
                 /\ last'.toasts[1][1] \in
                       {"Login Failed", "Registration Failed"}
           /\ last'.result = "error"
           /\ last'.err.from = "error"
           /\ last'.req.kind # "me" =>
                 last'.thrown /\ localStorage' = localStorage
           /\ last'.req.kind = "me" =>
                 localStorage' =
                     checkAuth(localStorage, FALSE, NoData, last'.err).ls
    ]_vars

C26_Witness ==
    /\ last.op = "response"
    /\ last.err.status = 401
    /\ last.req.kind = "resource"
    /\ last.before.sends = 1
    /\ last.req.retry
    /\ last.req.refreshes = 0
    /\ last.thrown
    /\ StoredRefresh = None
    /\ StoredAccess # None

\* C27: for any two like requests on distinct articles of the landing
\* view that are issued before either has completed, after both succeed
\* each of the two articles' local user_liked and likes equal the values
\* returned by its own response: no update is lost whichever response
\* arrives first (stated on the step in which the second response
\* arrives right after the first).
C27_NoLostLike ==
    [][(/\ page = "Home"
        /\ shown.op = "likeArticle" /\ shown.result = "ok"
        /\ shown'.op = "likeArticle" /\ shown'.result = "ok"
        /\ shown.call.id # shown'.call.id
        /\ shown'.call \in PageCalls) =>
           /\ state'.articles[shown.call.id] =
                 [likes |-> shown.data.likes_count,
                  user_liked |-> shown.data.liked]
           /\ state'.articles[shown'.call.id] =
                 [likes |-> shown'.data.likes_count,
                  user_liked |-> shown'.data.liked]
    ]_vars

\* C30: submitting the topic form always issues a create-topic call and
\* never an update-topic call, including when the form was reached
\* through the edit route /forum/topics/:id/edit; the route's id is
\* ignored and the view navigates to the newly created topic's id.
C30_TopicFormAlwaysCreates ==
    [][page = "CreateTopic" =>
          /\ \A call \in BagToSet(calls') :
                call.api = "createTopic" /\ call.id = None
          /\ (shown'.op = "handleSubmit" /\ ~IsInvalid(state.formData)) =>
                shown'.sent =
                    <<SaveCall("createTopic", None, state.formData)>>
          /\ shown'.result = "ok" =>
                /\ shown'.op = "createTopic"
                /\ shown'.navigate = <<"/forum/topics/", shown'.data>>
    ]_vars

C30_Witness ==
    /\ page = "CreateTopic"
    /\ state.id = "7"
    /\ shown.op = "createTopic"
    /\ shown.result = "ok"
    /\ shown.data = "8"
    /\ shown.navigate = <<"/forum/topics/", "8">>


\* C28: in the search view, once no search is in flight the displayed
\* articles and topics are the results of the most recently submitted
\* query (the q of the address), whatever order the responses of
\* overlapping searches arrive in; the topics shown are exactly those of
\* the fetched page whose title or content contains the search term
\* case-insensitively.  Stated for the states reached by a search that
\* has just succeeded.
C28_ResultsOfLatestQuery ==
    (/\ page = "Search"
     /\ calls = EmptyBag
     /\ shown.op = "search"
     /\ shown.result = "ok") =>
        /\ state.articles = Results(state.query, shown.data.items)
        /\ state.topics =
              Results(state.query,
                      FilterTopics(shown.data.topics, state.query))


\* C29: in the forum view the current page satisfies
\* 1 <= currentPage <= totalPages after each topics fetch completes
\* (loading is over), under any sequence of page clicks, Previous/Next
\* clicks, category changes and sort changes; every rendered page button
\* is a page in 1..totalPages and, when the pagination is rendered, the
\* current page is among the rendered buttons.
C29_CurrentPageInRange ==
    (page = "Forum" /\ ~state.loading) =>
        /\ 1 <= state.currentPage
        /\ state.currentPage <= state.totalPages
        /\ PageButtons(state) \subseteq 1 .. state.totalPages
        /\ state.totalPages > 1 => state.currentPage \in PageButtons(state)

====
